---- MODULE Spec2Model ----
(***************************************************************************)
(* Model of the temporary-mailbox server: the in-memory store              *)
(* (server/storage.ts, MemStorage), the HTTP handlers and the periodic     *)
(* sweep (server routes, registerRoutes) and the WebSocket registry.       *)
(*                                                                         *)
(* Time is an integer clock.  One clock unit stands for five minutes, so   *)
(* the ten minute lifetime of a session is TTL = 2 units.                  *)
(*                                                                         *)
(* Scheduling: a handler runs without interruption between two awaits of   *)
(* the provider (fetch); the awaits of the store resolve in the same       *)
(* microtask drain and are not interleaving points.  A refresh therefore   *)
(* takes one step per provider answer: RefreshStart (lookup, expiry check, *)
(* list request sent), RefreshList (list answered), RefreshContent (one    *)
(* content request answered).                                              *)
(***************************************************************************)
EXTENDS Integers, Sequences, FiniteSets, TLC

\* ---------------------------------------------------------------- bounds
MaxTime == 4          \* the clock runs from 0 to MaxTime
MaxSessions == 2      \* sessions generated in one run (ids 1..MaxSessions)
MaxMessages == 2      \* messages created in one run (ids 1..MaxMessages)
MaxList == 2          \* length of the list the provider answers with
MaxDigits == 9        \* base 36 digits Math.random().toString(36) can have

\* ten minutes, in clock units of five minutes
TTL == 2

Procs == {"r1", "r2"}                 \* concurrently running refresh requests
SessionIds == 1..MaxSessions
Absent == [absent |-> TRUE]           \* undefined / null

Conns == {"c1", "c2"}                 \* WebSocket connections

\* what the provider can list for an address: (from, subject) summaries
PlainMessages == {[from |-> "a", subject |-> "bc"], [from |-> "a", subject |-> "c"]}

\* the lists the provider can answer with: summaries with their provider ids
ProviderLists(kinds) ==
    UNION {{[k \in 1..n |-> [id |-> k, from |-> l[k].from, subject |-> l[k].subject]] :
                l \in [1..n -> kinds]} : n \in 0..MaxList}

VARIABLES
    now,                \* the wall clock (new Date(), Date.now())
    emailSessions,      \* MemStorage.emailSessions: id -> session
    messages,           \* MemStorage.messages, in insertion order
    nextSessionId,      \* fresh ids handed out by randomUUID (sessions)
    nextMessageId,      \* fresh ids handed out by randomUUID (messages)
    refresh,            \* per refresh request: position and local variables
    activeConnections,  \* the registry, in insertion order: <<sessionId, ws>>
    readyState,         \* per WebSocket: "none", "open", "broken", "closed"
    last,               \* the step just taken and what it answered
    obs,                \* what the refreshes so far were answered by the provider
    generating,         \* the generate request in flight: its race
    client              \* the Home page: its session, countdown and extensions

storeVars == <<emailSessions, messages, nextSessionId, nextMessageId>>
relayVars == <<activeConnections, readyState>>
vars == <<now, emailSessions, messages, nextSessionId, nextMessageId,
          refresh, activeConnections, readyState, last, obs, generating,
          client>>
serverAux == <<obs, generating>>
auxVars == <<obs, generating, client>>

\* ------------------------------------------------------------ the store
EmailOf(id) == id       \* the address generated for the id-th session

\* a generator that hands out the lowest id no stored session has
FreshSessionIdReused ==
    CHOOSE i \in 1..nextSessionId :
        /\ i \notin DOMAIN emailSessions
        /\ \A j \in 1..(i - 1) : j \in DOMAIN emailSessions

\* randomUUID() in createEmailSession: an id no session had before
FreshSessionId == nextSessionId

GetEmailSession(id) ==
    IF id \in DOMAIN emailSessions THEN emailSessions[id] ELSE Absent

\* the comparison turned round
IsExpiredReversed(session, t) == session.expiresAt > t

\* a session that never expires
IsExpiredNever(session, t) == FALSE

\* expired already at the instant expiresAt
IsExpiredAtExpiresAt(session, t) == session.expiresAt <= t

\* session.expiresAt < new Date()
IsExpired(session, t) == session.expiresAt < t

\* no ordering: the messages stay in insertion order
InsertUnordered(m, s) == Append(s, m)

\* a sort that puts the later element first on equal timestamps
RECURSIVE InsertNewestFirst(_, _)
InsertNewestFirst(m, s) ==
    IF s = <<>> THEN <<m>>
    ELSE IF s[1].receivedAt - m.receivedAt > 0
         THEN <<s[1]>> \o InsertNewestFirst(m, Tail(s))
         ELSE <<m>> \o s

\* Array.prototype.sort is stable: insert m behind every element that is
\* not older than m
RECURSIVE InsertByReceivedAt(_, _)
InsertByReceivedAt(m, s) ==
    IF s = <<>> THEN <<m>>
    ELSE IF s[1].receivedAt - m.receivedAt >= 0
         THEN <<s[1]>> \o InsertByReceivedAt(m, Tail(s))
         ELSE <<m>> \o s

RECURSIVE SortByReceivedAt(_)
SortByReceivedAt(s) ==
    IF s = <<>> THEN <<>>
    ELSE InsertByReceivedAt(s[Len(s)], SortByReceivedAt(SubSeq(s, 1, Len(s) - 1)))

MessagesOf(msgs, sessionId) ==
    SelectSeq(msgs, LAMBDA m : m.emailSessionId = sessionId)

GetMessagesBySessionIdIn(msgs, sessionId) ==
    SortByReceivedAt(MessagesOf(msgs, sessionId))

GetMessagesBySessionId(sessionId) == GetMessagesBySessionIdIn(messages, sessionId)

\* a loop that stops after the first message it deleted
DeleteFirstMessageBySessionId(msgs, sessionId) ==
    LET owned == {k \in 1..Len(msgs) : msgs[k].emailSessionId = sessionId}
    IN IF owned = {} THEN msgs
       ELSE LET first == CHOOSE k \in owned : \A j \in owned : k <= j
            IN SubSeq(msgs, 1, first - 1) \o SubSeq(msgs, first + 1, Len(msgs))

\* a delete that empties the message table
DeleteEveryMessage(msgs, sessionId) == <<>>

\* the message table after deleteMessagesBySessionId(sessionId)
DeleteMessagesBySessionId(msgs, sessionId) ==
    SelectSeq(msgs, LAMBDA m : m.emailSessionId # sessionId)

\* a delete that leaves the session in the table
SessionsKept(sessions, id) == sessions

\* the session table after deleteEmailSession(id)
SessionsWithout(sessions, id) ==
    [i \in DOMAIN sessions \ {id} |-> sessions[i]]

\* a sweep that also takes the sessions expiring at this instant
ExpiredIdsAtExpiresAt(sessions, t) == {i \in DOMAIN sessions : sessions[i].expiresAt <= t}

\* a sweep with the comparison turned round
ExpiredIdsReversed(sessions, t) == {i \in DOMAIN sessions : sessions[i].expiresAt > t}

\* ids that cleanupExpiredSessions deletes at time t
ExpiredIds(sessions, t) == {i \in DOMAIN sessions : sessions[i].expiresAt < t}

RECURSIVE DeleteAllMessages(_, _)
DeleteAllMessages(msgs, ids) ==
    IF ids = {} THEN msgs
    ELSE LET i == CHOOSE i \in ids : TRUE
         IN DeleteAllMessages(DeleteMessagesBySessionId(msgs, i), ids \ {i})

NewMessage(id, sessionId, from, subject, textBody, t) ==
    [id |-> id, emailSessionId |-> sessionId, from |-> from, subject |-> subject,
     textBody |-> textBody, receivedAt |-> t]

\* activeConnections.get(sessionId)
RegistryGet(registry, sessionId) ==
    IF \E k \in 1..Len(registry) : registry[k][1] = sessionId
    THEN registry[CHOOSE k \in 1..Len(registry) : registry[k][1] = sessionId][2]
    ELSE "none"

\* a registry where the first subscriber of a session stays
RegistrySetKeepFirst(registry, sessionId, ws) ==
    IF \E k \in 1..Len(registry) : registry[k][1] = sessionId
    THEN registry
    ELSE Append(registry, <<sessionId, ws>>)

\* activeConnections.set(sessionId, ws): a Map keeps the place of a key it
\* already holds and appends a new key
RegistrySet(registry, sessionId, ws) ==
    IF \E k \in 1..Len(registry) : registry[k][1] = sessionId
    THEN [k \in 1..Len(registry) |->
             IF registry[k][1] = sessionId THEN <<sessionId, ws>> ELSE registry[k]]
    ELSE Append(registry, <<sessionId, ws>>)

\* a close that deletes the first entry of the registry, whoever holds it
RegistryDeleteHead(registry, ws) ==
    IF registry = << >> THEN registry ELSE Tail(registry)

\* the loop of ws.on('close'): the first entry holding ws is deleted, then
\* the loop breaks
RegistryDeleteFirst(registry, ws) ==
    LET held == {k \in 1..Len(registry) : registry[k][2] = ws}
    IN IF held = {} THEN registry
       ELSE LET first == CHOOSE k \in held : \A j \in held : k <= j
            IN SubSeq(registry, 1, first - 1) \o SubSeq(registry, first + 1, Len(registry))

\* ws.readyState === WebSocket.OPEN; on a "broken" socket send() raises
IsOpen(state) == state \in {"open", "broken"}

\* a push to every open connection
NotifyAll(registry, states, sessionId, count) ==
    LET open == {c \in DOMAIN states : IsOpen(states[c])}
        RECURSIVE ToAll(_)
        ToAll(cs) == IF cs = {} THEN <<>>
                     ELSE LET c == CHOOSE c \in cs : TRUE
                          IN <<[to |-> c, type |-> "new_messages", count |-> count]>>
                             \o ToAll(cs \ {c})
    IN ToAll(open)

\* a push without the look at readyState
NotifyUnchecked(registry, states, sessionId, count) ==
    LET ws == RegistryGet(registry, sessionId)
    IN IF ws # "none"
       THEN <<[to |-> ws, type |-> "new_messages", count |-> count]>>
       ELSE <<>>

\* a push that always announces one message
NotifyOne(registry, states, sessionId, count) ==
    LET ws == RegistryGet(registry, sessionId)
    IN IF ws # "none" /\ IsOpen(states[ws])
       THEN <<[to |-> ws, type |-> "new_messages", count |-> 1]>>
       ELSE <<>>

\* the sends the refresh of sessionId attempts after its loop
Notify(registry, states, sessionId, count) ==
    LET ws == RegistryGet(registry, sessionId)
    IN IF ws # "none" /\ IsOpen(states[ws])
       THEN <<[to |-> ws, type |-> "new_messages", count |-> count]>>
       ELSE <<>>

\* m.from + m.subject
MessageKey(m) == m.from \o m.subject

\* new Set(existingMessages.map(m => m.from + m.subject))
ExistingMessageIds(existing) == {MessageKey(existing[k]) : k \in 1..Len(existing)}

\* first index at or after i of a provider message whose key is not in the
\* set built before the loop; 0 when the loop runs to its end
NextNewIndex(apiMessages, existingMessageIds, i) ==
    LET new == {j \in i..Len(apiMessages) :
                    MessageKey(apiMessages[j]) \notin existingMessageIds}
    IN IF new = {} THEN 0 ELSE CHOOSE j \in new : \A k \in new : j <= k

\* a getMessages without its try / catch: a failed fetch rejects
ApiGetMessagesUncaught(outcome, list) ==
    CASE outcome = "ok" -> [raised |-> FALSE, value |-> list]
      [] outcome = "error" -> [raised |-> TRUE, value |-> <<>>]
      [] OTHER -> [raised |-> FALSE, value |-> <<>>]

\* OneSecMailAPI.getMessages: what the handler gets when the provider's
\* answer is outcome: "ok" (a JSON array, list), "error" (fetch or json()
\* threw), "nonJSON" (content type), "nonArray" (JSON that is no array)
ApiGetMessages(outcome, list) ==
    CASE outcome = "ok" -> [raised |-> FALSE, value |-> list]
      [] OTHER -> [raised |-> FALSE, value |-> <<>>]

\* a text body without the placeholder
TextBodyOfNoPlaceholder(content) ==
    CASE content = "textBody" -> "text"
      [] content = "body" -> "body"
      [] OTHER -> ""

\* fullMessage?.textBody || fullMessage?.body || "No content"
TextBodyOf(content) ==
    CASE content = "textBody" -> "text"
      [] content = "body" -> "body"
      [] OTHER -> "No content"

\* ---------------------------------------------------- address generation
\* the candidate domains of the fallback
FallbackDomains == <<"1secmail.com", "1secmail.org", "1secmail.net">>

\* Math.random().toString(36): "0" for 0, else "0." and the base 36 digits
Random36 ==
    {<<"0">>} \cup {<<"0", ".">> \o [k \in 1..n |-> "x"] : n \in 1..MaxDigits}

Min(a, b) == IF a <= b THEN a ELSE b

\* String.prototype.substring(start, end) for 0 <= start <= end
Substring(str, start, end) == SubSeq(str, start + 1, Min(end, Len(str)))

\* an address the provider hands out
ProviderEmail == [local |-> <<"p", "r", "o", "v", "i", "d", "e", "r">>,
                  domain |-> "1secmail.com"]

\* OneSecMailAPI.generateFallbackEmail
GenerateFallbackEmail(random, d) ==
    [local |-> Substring(random, 2, 10), domain |-> FallbackDomains[d]]

\* the address the timeout branch of the race resolves with
TimeoutEmail(random) ==
    [local |-> Substring(random, 2, 10), domain |-> "1secmail.com"]

\* a generateEmail without its try / catch: a failed fetch rejects
GenerateEmailUncaught(outcome, random, d) ==
    CASE outcome = "ok" -> [raised |-> FALSE, email |-> ProviderEmail]
      [] outcome = "error" -> [raised |-> TRUE, email |-> Absent]
      [] OTHER -> [raised |-> FALSE, email |-> GenerateFallbackEmail(random, d)]

\* OneSecMailAPI.generateEmail: what emailPromise settles with when the
\* provider's answer is outcome: "ok" (a JSON array with an address),
\* "error" (fetch or json() threw), "nonJSON" (content type), "empty" (no array
\* or an empty one)
GenerateEmail(outcome, random, d) ==
    CASE outcome = "ok" -> [raised |-> FALSE, email |-> ProviderEmail]
      [] OTHER -> [raised |-> FALSE, email |-> GenerateFallbackEmail(random, d)]

\* a lifetime of five minutes
ExpiresAtFiveMinutes(t) == t + 1

\* new Date(Date.now() + 10 * 60 * 1000)
ExpiresAt(t) == t + TTL

\* ------------------------------------------------------------- the steps
NoLast == [op |-> "none", access |-> FALSE, id |-> 0, session |-> Absent,
           status |-> 0, body |-> <<>>, newCount |-> 0, created |-> 0,
           sent |-> <<>>, ws |-> "none", replaced |-> "none",
           deleted |-> {}, removed |-> 0]

IdleRefresh == [pc |-> "idle", session |-> Absent, apiMessages |-> <<>>,
                existingMessageIds |-> {}, i |-> 0, newMessagesCount |-> 0]

\* no generate request in flight, no promise pending, no timer armed
NoRace == [pc |-> "idle", emailPromise |-> "none", timer |-> "none"]

\* the state of the Home page before an address was generated
NoClient == [currentSession |-> Absent, timeRemaining |-> 0, usedExtensions |-> {}]

\* nothing observed yet
NoList == [absent |-> TRUE]
NoObs == [apiMessages |-> NoList, existingMessages |-> <<>>,
          done |-> NoList, previous |-> NoList,
          outcome |-> "none", counted |-> 0, provided |-> NoList,
          superseded |-> {}]

Init ==
    /\ now = 0
    /\ emailSessions = << >>
    /\ messages = << >>
    /\ nextSessionId = 1
    /\ nextMessageId = 1
    /\ refresh = [p \in Procs |-> IdleRefresh]
    /\ activeConnections = << >>
    /\ readyState = [c \in Conns |-> "none"]
    /\ last = NoLast
    /\ obs = NoObs
    /\ generating = NoRace
    /\ client = NoClient

\* the clock advances
Tick ==
    /\ now < MaxTime
    /\ now' = now + 1
    /\ last' = NoLast
    /\ UNCHANGED <<storeVars, refresh, relayVars>>

\* POST /api/email/generate
Generate ==
    /\ nextSessionId <= MaxSessions
    /\ LET id == FreshSessionId
           session == [id |-> id, email |-> EmailOf(id),
                       expiresAt |-> now + TTL, createdAt |-> now]
       IN /\ emailSessions' = (id :> session) @@ emailSessions
          /\ last' = [NoLast EXCEPT !.op = "generate", !.id = id,
                                    !.status = 200, !.body = session]
    /\ nextSessionId' = nextSessionId + 1
    /\ UNCHANGED <<now, messages, nextMessageId, refresh, relayVars>>

\* the first lines of the three per-session handlers: look the session up,
\* answer 404 when it is unknown, delete it and answer 410 when it is expired

\* a 404 that also drops the subscriber registered for the id
UnknownForgets(op, id) ==
    /\ GetEmailSession(id) = Absent
    /\ last' = [NoLast EXCEPT !.op = op, !.access = TRUE, !.id = id,
                              !.status = 404]
    /\ activeConnections' = SelectSeq(activeConnections, LAMBDA e : e[1] # id)
    /\ UNCHANGED <<now, storeVars, refresh, readyState>>

\* the 404 answer of the three per-session handlers
Unknown(op, id) ==
    /\ GetEmailSession(id) = Absent
    /\ last' = [NoLast EXCEPT !.op = op, !.access = TRUE, !.id = id,
                              !.status = 404]
    /\ UNCHANGED <<now, storeVars, refresh, relayVars>>

\* a 410 that also tells the session's subscriber
ExpiredNotifies(op, id) ==
    /\ GetEmailSession(id) # Absent
    /\ IsExpired(GetEmailSession(id), now)
    /\ emailSessions' = SessionsWithout(emailSessions, id)
    /\ messages' = DeleteMessagesBySessionId(messages, id)
    /\ last' = [NoLast EXCEPT !.op = op, !.access = TRUE, !.id = id,
                              !.session = GetEmailSession(id), !.status = 410,
                              !.deleted = {id},
                              !.removed = Len(MessagesOf(messages, id)),
                              !.sent = Notify(activeConnections, readyState, id, 0)]
    /\ UNCHANGED <<now, nextSessionId, nextMessageId, refresh,
                   relayVars>>

\* the 410 answer of the three per-session handlers: the session and its
\* messages are deleted
Expired(op, id) ==
    /\ GetEmailSession(id) # Absent
    /\ IsExpired(GetEmailSession(id), now)
    /\ emailSessions' = SessionsWithout(emailSessions, id)
    /\ messages' = DeleteMessagesBySessionId(messages, id)
    /\ last' = [NoLast EXCEPT !.op = op, !.access = TRUE, !.id = id,
                              !.session = GetEmailSession(id), !.status = 410,
                              !.deleted = {id},
                              !.removed = Len(MessagesOf(messages, id))]
    /\ UNCHANGED <<now, nextSessionId, nextMessageId, refresh,
                   relayVars>>

Active(id) ==
    /\ GetEmailSession(id) # Absent
    /\ ~IsExpired(GetEmailSession(id), now)

\* a GET session that renews the session it reads
GetSessionSliding(id) ==
    \/ Unknown("getSession", id)
    \/ Expired("getSession", id)
    \/ /\ Active(id)
       /\ emailSessions' = [emailSessions EXCEPT ![id].expiresAt = now + TTL]
       /\ last' = [NoLast EXCEPT !.op = "getSession", !.access = TRUE,
                                 !.id = id, !.session = GetEmailSession(id),
                                 !.status = 200, !.body = emailSessions'[id]]
       /\ UNCHANGED <<now, messages, nextSessionId, nextMessageId, refresh,
                      relayVars>>

\* GET /api/email/:sessionId
GetSession(id) ==
    \/ Unknown("getSession", id)
    \/ Expired("getSession", id)
    \/ /\ Active(id)
       /\ last' = [NoLast EXCEPT !.op = "getSession", !.access = TRUE,
                                 !.id = id, !.session = GetEmailSession(id),
                                 !.status = 200, !.body = GetEmailSession(id)]
       /\ UNCHANGED <<now, storeVars, refresh, relayVars>>

\* GET /api/email/:sessionId/messages
GetMessages(id) ==
    \/ Unknown("getMessages", id)
    \/ Expired("getMessages", id)
    \/ /\ Active(id)
       /\ last' = [NoLast EXCEPT !.op = "getMessages", !.access = TRUE,
                                 !.id = id, !.session = GetEmailSession(id),
                                 !.status = 200,
                                 !.body = GetMessagesBySessionId(id)]
       /\ UNCHANGED <<now, storeVars, refresh, relayVars>>

\* pollForNewMessages, every 30 seconds: storage.cleanupExpiredSessions()
Sweep ==
    LET ids == ExpiredIds(emailSessions, now)
    IN /\ emailSessions' = [i \in DOMAIN emailSessions \ ids |-> emailSessions[i]]
       /\ messages' = DeleteAllMessages(messages, ids)
       /\ last' = [NoLast EXCEPT !.op = "sweep", !.deleted = ids,
                                 !.removed = Len(messages) - Len(messages')]
       /\ UNCHANGED <<now, nextSessionId, nextMessageId, refresh,
                      relayVars>>

\* POST /api/email/:sessionId/refresh, from the loop over apiMessages on:
\* r holds the locals, r.i the index the loop is at, msgs the message table
RefreshContinue(p, r, msgs) ==
    LET j == NextNewIndex(r.apiMessages, r.existingMessageIds, r.i)
        id == r.session.id
        attempts == Notify(activeConnections, readyState, id, r.newMessagesCount)
        raised == \E k \in 1..Len(attempts) : readyState[attempts[k].to] = "broken"
    IN IF j # 0
       THEN /\ refresh' = [refresh EXCEPT ![p] = [r EXCEPT !.pc = "content", !.i = j]]
            /\ last' = NoLast
       ELSE /\ refresh' = [refresh EXCEPT ![p] = IdleRefresh]
            /\ last' = IF raised
                       THEN [NoLast EXCEPT
                                !.op = "refresh", !.id = id, !.session = r.session,
                                !.status = 500,
                                !.created = r.newMessagesCount]
                       ELSE [NoLast EXCEPT
                                !.op = "refresh", !.id = id, !.session = r.session,
                                !.status = 200,
                                !.body = GetMessagesBySessionIdIn(msgs, id),
                                !.newCount = r.newMessagesCount,
                                !.created = r.newMessagesCount,
                                !.sent = attempts]

\* the handler up to the request for the provider's list
RefreshStart(p, id) ==
    /\ refresh[p].pc = "idle"
    /\ \/ Unknown("refresh", id)
       \/ Expired("refresh", id)
       \/ /\ Active(id)
          /\ refresh' = [refresh EXCEPT ![p] =
                            [IdleRefresh EXCEPT !.pc = "list",
                                                !.session = GetEmailSession(id)]]
          /\ last' = [NoLast EXCEPT !.op = "refresh", !.access = TRUE,
                                    !.id = id, !.session = GetEmailSession(id)]
          /\ UNCHANGED <<now, storeVars, relayVars>>

\* tempMailAPI.getMessages answers with apiMessages: the provider's list, or
\* [] on any failure
RefreshList(p, apiMessages) ==
    /\ refresh[p].pc = "list"
    /\    RefreshContinue(p,
              [refresh[p] EXCEPT
                  !.apiMessages = apiMessages,
                  !.existingMessageIds =
                      ExistingMessageIds(GetMessagesBySessionId(refresh[p].session.id)),
                  !.i = 1],
              messages)
    /\ UNCHANGED <<now, storeVars, relayVars>>

\* getMessageContent answers for apiMessages[i]: the message is created
RefreshContent(p, content) ==
    /\ refresh[p].pc = "content"
    /\ nextMessageId <= MaxMessages
    /\    LET r == refresh[p]
              apiMessage == r.apiMessages[r.i]
              message == NewMessage(nextMessageId, r.session.id, apiMessage.from,
                                    apiMessage.subject, TextBodyOf(content), now)
          IN /\ messages' = Append(messages, message)
             /\ RefreshContinue(p,
                    [r EXCEPT !.i = r.i + 1,
                              !.newMessagesCount = r.newMessagesCount + 1],
                    messages')
    /\ nextMessageId' = nextMessageId + 1
    /\ UNCHANGED <<now, emailSessions, nextSessionId, relayVars>>

\* wss.on('connection'): a client opens a WebSocket
Connect(c) ==
    /\ readyState[c] = "none"
    /\ readyState' = [readyState EXCEPT ![c] = "open"]
    /\ last' = [NoLast EXCEPT !.op = "connect", !.ws = c]
    /\ UNCHANGED <<now, storeVars, refresh, activeConnections>>

\* ws.on('message') with {type: 'subscribe', sessionId}
Subscribe(c, sessionId) ==
    /\ IsOpen(readyState[c])
    /\ activeConnections' = RegistrySet(activeConnections, sessionId, c)
    /\ last' = [NoLast EXCEPT !.op = "subscribe", !.id = sessionId, !.ws = c,
                              !.replaced = RegistryGet(activeConnections, sessionId)]
    /\ UNCHANGED <<now, storeVars, refresh, readyState>>

\* ws.on('close')
Close(c) ==
    /\ IsOpen(readyState[c])
    /\ readyState' = [readyState EXCEPT ![c] = "closed"]
    /\ activeConnections' = RegistryDeleteFirst(activeConnections, c)
    /\ last' = [NoLast EXCEPT !.op = "close", !.ws = c]
    /\ UNCHANGED <<now, storeVars, refresh>>

\* the socket of an open connection gets into a state where send() raises
Break(c) ==
    /\ readyState[c] = "open"
    /\ readyState' = [readyState EXCEPT ![c] = "broken"]
    /\ last' = NoLast
    /\ UNCHANGED <<now, storeVars, refresh, activeConnections>>

\* POST /api/email/generate up to the await of the race: the provider is
\* asked for an address and the 100 ms timer is armed
GenerateStart ==
    /\ nextSessionId <= MaxSessions
    /\ generating.pc = "idle"
    /\ generating.emailPromise # "pending" /\ generating.timer # "armed"
    /\ generating' = [pc |-> "racing", emailPromise |-> "pending", timer |-> "armed"]
    /\ last' = [NoLast EXCEPT !.op = "generate", !.access = TRUE]
    /\ UNCHANGED <<now, storeVars, refresh, relayVars>>

\* the handler after the race has settled with result: expiresAt is read
\* from the clock, createEmailSession reads the clock again for createdAt;
\* drift is what the clock advanced between the two reads
GenerateSettled(result, drift) ==
    /\ now + drift <= MaxTime
    /\ now' = now + drift
    /\ IF result.raised
       THEN /\ last' = [NoLast EXCEPT !.op = "generate", !.status = 500]
            /\ UNCHANGED <<emailSessions, nextSessionId>>
       ELSE LET id == FreshSessionId
                session == [id |-> id, email |-> result.email,
                            expiresAt |-> ExpiresAt(now), createdAt |-> now + drift]
            IN /\ emailSessions' = (id :> session) @@ emailSessions
               /\ nextSessionId' = nextSessionId + 1
               /\ last' = [NoLast EXCEPT !.op = "generate", !.id = id,
                                         !.status = 200, !.body = session]
    /\ UNCHANGED <<messages, nextMessageId, refresh, relayVars>>

\* the provider answers the address request (emailPromise settles): the race
\* is won when it is still open, a late answer changes nothing
ProviderAnswers(outcome, random, d, drift) ==
    /\ generating.emailPromise = "pending"
    /\ IF generating.pc = "racing"
       THEN /\ generating' = [generating EXCEPT !.pc = "idle",
                                                !.emailPromise = "settled"]
            /\ GenerateSettled(GenerateEmail(outcome, random, d), drift)
       ELSE /\ generating' = [generating EXCEPT !.emailPromise = "settled"]
            /\ last' = NoLast
            /\ UNCHANGED <<now, storeVars, refresh, relayVars>>

\* the 100 ms timer fires (timeoutPromise resolves)
TimerFires(random, drift) ==
    /\ generating.timer = "armed"
    /\ IF generating.pc = "racing"
       THEN /\ generating' = [generating EXCEPT !.pc = "idle", !.timer = "fired"]
            /\ GenerateSettled([raised |-> FALSE, email |-> TimeoutEmail(random)],
                               drift)
       ELSE /\ generating' = [generating EXCEPT !.timer = "fired"]
            /\ last' = NoLast
            /\ UNCHANGED <<now, storeVars, refresh, relayVars>>

\* The server with one refresh request at a time in flight, a provider that
\* lists mails with two different subjects and answers every content request.
Next ==
    \/ Tick /\ UNCHANGED auxVars
    \/ Generate /\ UNCHANGED auxVars
    \/ \E id \in SessionIds : GetSession(id) /\ UNCHANGED auxVars
    \/ \E id \in SessionIds : GetMessages(id) /\ UNCHANGED auxVars
    \/ Sweep /\ UNCHANGED auxVars
    \/ \E id \in SessionIds : RefreshStart("r1", id) /\ UNCHANGED auxVars
    \/ \E apiMessages \in ProviderLists(PlainMessages) :
           RefreshList("r1", apiMessages) /\ UNCHANGED auxVars
    \/ RefreshContent("r1", "textBody") /\ UNCHANGED auxVars

Spec == Init /\ [][Next]_vars

\* mails whose sender and subject concatenate to the same string, and one
\* that does not
DedupMessages == {[from |-> "a", subject |-> "bc"], [from |-> "ab", subject |-> "c"],
                  [from |-> "a", subject |-> "c"]}

\* the provider answered the list request of a refresh: what it answered and
\* the messages the handler read from the store (existingMessages)
ObservedList(o, apiMessages, existingMessages) ==
    [o EXCEPT !.apiMessages = apiMessages, !.existingMessages = existingMessages]

\* the refresh of session id has answered: its list becomes the list of the
\* last completed refresh, the one before it is kept as well
ObservedDone(o, id) ==
    [o EXCEPT !.previous = o.done,
              !.done = [id |-> id, apiMessages |-> o.apiMessages]]

ObservedRefreshList(p, apiMessages) ==
    /\ RefreshList(p, apiMessages)
    /\ LET id == refresh[p].session.id
           o == ObservedList(obs, apiMessages, GetMessagesBySessionId(id))
       IN obs' = IF refresh'[p].pc = "idle" THEN ObservedDone(o, id) ELSE o

ObservedRefreshContent(p, content) ==
    /\ RefreshContent(p, content)
    /\ obs' = IF refresh'[p].pc = "idle"
              THEN ObservedDone(obs, refresh[p].session.id) ELSE obs

\* One mailbox, one refresh request at a time in flight, a provider whose
\* mails can collide in sender + subject; what the provider answered is
\* recorded in obs.
NextDedup ==
    \/ Tick /\ UNCHANGED auxVars
    \/ Generate /\ nextSessionId = 1 /\ UNCHANGED auxVars
    \/ Sweep /\ UNCHANGED auxVars
    \/ RefreshStart("r1", 1) /\ UNCHANGED auxVars
    \/ \E apiMessages \in ProviderLists(DedupMessages) :
           ObservedRefreshList("r1", apiMessages) /\ UNCHANGED <<generating, client>>
    \/ ObservedRefreshContent("r1", "textBody") /\ UNCHANGED <<generating, client>>

SpecDedup == Init /\ [][NextDedup]_vars

\* The mailboxes with their WebSocket clients: connections open, subscribe
\* and close while refreshes run; no session expires.
NextRelay ==
    \/ Generate /\ UNCHANGED auxVars
    \/ \E c \in Conns : Connect(c) /\ UNCHANGED auxVars
    \/ \E c \in Conns, id \in SessionIds : Subscribe(c, id) /\ UNCHANGED auxVars
    \/ \E c \in Conns : Close(c) /\ UNCHANGED auxVars
    \/ \E id \in SessionIds : RefreshStart("r1", id) /\ UNCHANGED auxVars
    \/ \E apiMessages \in ProviderLists(PlainMessages) :
           RefreshList("r1", apiMessages) /\ UNCHANGED auxVars
    \/ RefreshContent("r1", "textBody") /\ UNCHANGED auxVars

SpecRelay == Init /\ [][NextRelay]_vars

\* The same with sockets on which send() can raise.
NextRelayFaulty ==
    \/ NextRelay
    \/ \E c \in Conns : Break(c) /\ UNCHANGED auxVars

SpecRelayFaulty == Init /\ [][NextRelayFaulty]_vars

\* The mailboxes with their WebSocket clients and all three per-session
\* endpoints.
NextAccess ==
    \/ NextRelay
    \/ \E id \in SessionIds : GetSession(id) /\ UNCHANGED auxVars
    \/ \E id \in SessionIds : GetMessages(id) /\ UNCHANGED auxVars

SpecAccess == Init /\ [][NextAccess]_vars

\* MemStorage.deleteEmailSession(id), called by a user of the store
DeleteEmailSession(id) ==
    /\ emailSessions' = SessionsWithout(emailSessions, id)
    /\ messages' = DeleteMessagesBySessionId(messages, id)
    /\ last' = [NoLast EXCEPT !.op = "delete", !.id = id,
                              !.session = GetEmailSession(id),
                              !.deleted = {id} \cap DOMAIN emailSessions,
                              !.removed = Len(MessagesOf(messages, id))]
    /\ UNCHANGED <<now, nextSessionId, nextMessageId, refresh, relayVars>>

\* The server, and a user of the store who deletes sessions by id.
NextStore ==
    \/ Next
    \/ \E id \in SessionIds : DeleteEmailSession(id) /\ UNCHANGED auxVars

SpecStore == Init /\ [][NextStore]_vars

\* the lists of a provider whose mails all differ in (from, subject)
DistinctLists ==
    {l \in ProviderLists(PlainMessages) :
        \A j, k \in 1..Len(l) : j # k => l[j].subject # l[k].subject}

\* the provider's list does not change: the first answer is recorded and
\* every later request is answered with it
SameListAnswered(p, apiMessages) ==
    /\ obs.provided # NoList => obs.provided = [apiMessages |-> apiMessages]
    /\ RefreshList(p, apiMessages)
    /\ obs' = [obs EXCEPT !.provided = [apiMessages |-> apiMessages],
                          !.counted = IF refresh'[p].pc = "idle"
                                      THEN obs.counted + last'.newCount
                                      ELSE obs.counted]

\* a content answer; the newCount of a refresh that answers is added up
CountedRefreshContent(p, content) ==
    /\ RefreshContent(p, content)
    /\ obs' = [obs EXCEPT !.counted = IF refresh'[p].pc = "idle"
                                      THEN obs.counted + last'.newCount
                                      ELSE obs.counted]

\* Two refresh requests for one mailbox at a time, against a provider whose
\* list stays the same.
NextConcurrent ==
    \/ Generate /\ nextSessionId = 1 /\ UNCHANGED auxVars
    \/ \E p \in Procs : RefreshStart(p, 1) /\ UNCHANGED auxVars
    \/ \E p \in Procs, apiMessages \in DistinctLists :
           SameListAnswered(p, apiMessages) /\ UNCHANGED <<generating, client>>
    \/ \E p \in Procs :
           CountedRefreshContent(p, "textBody") /\ UNCHANGED <<generating, client>>

SpecConcurrent == Init /\ [][NextConcurrent]_vars

\* the refresh handler's catch: 500
RefreshFailed(p) ==
    /\ refresh' = [refresh EXCEPT ![p] = IdleRefresh]
    /\ last' = [NoLast EXCEPT !.op = "refresh", !.id = refresh[p].session.id,
                              !.session = refresh[p].session, !.status = 500]
    /\ UNCHANGED <<now, storeVars, relayVars>>

\* the provider's answer to the list request, by outcome
RefreshListAnswered(p, outcome, list) ==
    /\ refresh[p].pc = "list"
    /\ LET result == ApiGetMessages(outcome, list)
       IN IF result.raised THEN RefreshFailed(p) ELSE RefreshList(p, result.value)
    /\ obs' = [obs EXCEPT !.outcome = outcome]

\* the provider's answer to a content request, by outcome: a detail with
\* "textBody", with "body" only, "empty" (neither), or "absent" (null)
RefreshContentAnswered(p, content) ==
    /\ RefreshContent(p, content)
    /\ obs' = [obs EXCEPT !.outcome = content]

ListOutcomes == {"ok", "error", "nonJSON", "nonArray"}
ListFailures == ListOutcomes \ {"ok"}
ContentOutcomes == {"textBody", "body", "empty", "absent"}

\* Refreshes against a provider whose answers can fail.
NextProvider ==
    \/ Generate /\ UNCHANGED auxVars
    \/ \E id \in SessionIds : RefreshStart("r1", id) /\ UNCHANGED auxVars
    \/ \E outcome \in ListOutcomes, list \in ProviderLists(PlainMessages) :
           RefreshListAnswered("r1", outcome, list) /\ UNCHANGED <<generating, client>>
    \/ \E content \in ContentOutcomes :
           RefreshContentAnswered("r1", content) /\ UNCHANGED <<generating, client>>

SpecProvider == Init /\ [][NextProvider]_vars

\* what the provider can do with an address request
GenerateOutcomes == {"ok", "error", "nonJSON", "empty"}

\* Address generation: the provider answers in time, late or never, the
\* clock runs.
NextGenerate ==
    \/ Tick /\ UNCHANGED auxVars
    \/ GenerateStart /\ UNCHANGED <<obs, client>>
    \/ \E outcome \in GenerateOutcomes, random \in Random36,
          d \in DOMAIN FallbackDomains, drift \in {0, 1} :
           ProviderAnswers(outcome, random, d, drift) /\ UNCHANGED <<obs, client>>
    \/ \E random \in Random36, drift \in {0, 1} :
           TimerFires(random, drift) /\ UNCHANGED <<obs, client>>

SpecGenerate == Init /\ [][NextGenerate]_vars

\* The same with a timer that fires (setTimeout(..., 100)).
SpecGenerateTimer ==
    /\ Init /\ [][NextGenerate]_vars
    /\ WF_vars(\E random \in Random36 : TimerFires(random, 0) /\ UNCHANGED <<obs, client>>)

\* The same server with the sweep timer firing again and again
\* (setInterval(pollForNewMessages, 30000)).
SpecSweep == Init /\ [][Next]_vars /\ WF_vars(Sweep /\ UNCHANGED auxVars)

\* The server with a subscriber while time passes: sessions expire and are
\* swept while a connection is registered for them; the provider lists mails
\* of one sender and subject.
NextLive ==
    \/ Tick /\ UNCHANGED auxVars
    \/ Generate /\ UNCHANGED auxVars
    \/ Sweep /\ UNCHANGED auxVars
    \/ Connect("c1") /\ UNCHANGED auxVars
    \/ \E id \in SessionIds : Subscribe("c1", id) /\ UNCHANGED auxVars
    \/ \E id \in SessionIds : GetSession(id) /\ UNCHANGED auxVars
    \/ \E id \in SessionIds : GetMessages(id) /\ UNCHANGED auxVars
    \/ \E id \in SessionIds : RefreshStart("r1", id) /\ UNCHANGED auxVars
    \/ \E apiMessages \in ProviderLists({[from |-> "a", subject |-> "bc"]}) :
           RefreshList("r1", apiMessages) /\ UNCHANGED auxVars
    \/ RefreshContent("r1", "textBody") /\ UNCHANGED auxVars

SpecLive == Init /\ [][NextLive]_vars

\* a subscribe observed: a connection whose entry for the session is taken
\* over by another connection is superseded for it, until it subscribes to
\* the session again
ObservedSubscribe(c, sessionId) ==
    /\ Subscribe(c, sessionId)
    /\ LET replaced == RegistryGet(activeConnections, sessionId)
           others == obs.superseded \ {<<c, sessionId>>}
       IN obs' = [obs EXCEPT !.superseded =
                     IF replaced \notin {"none", c}
                     THEN others \cup {<<replaced, sessionId>>}
                     ELSE others]

\* The relay with the subscribers that were superseded remembered; the
\* provider lists mails of one sender and subject.
NextSupersede ==
    \/ Generate /\ UNCHANGED auxVars
    \/ \E c \in Conns : Connect(c) /\ UNCHANGED auxVars
    \/ \E c \in Conns, id \in SessionIds :
           ObservedSubscribe(c, id) /\ UNCHANGED <<generating, client>>
    \/ \E c \in Conns : Close(c) /\ UNCHANGED auxVars
    \/ \E id \in SessionIds : RefreshStart("r1", id) /\ UNCHANGED auxVars
    \/ \E apiMessages \in ProviderLists({[from |-> "a", subject |-> "bc"]}) :
           RefreshList("r1", apiMessages) /\ UNCHANGED auxVars
    \/ RefreshContent("r1", "textBody") /\ UNCHANGED auxVars

SpecSupersede == Init /\ [][NextSupersede]_vars

\* ------------------------------------------------------- the Home page
\* The client counts seconds; the clock of the model counts units of five
\* minutes, so the countdown is kept in those units.
ClockUnits(minutes) == minutes \div 5

\* setTimeRemaining(600): ten minutes
CountdownStart == 2

\* the +5 min and +10 min buttons
ExtensionMinutes == {5, 10}

\* `${currentSession.id}_${minutes}`
ExtensionKey(session, minutes) == <<session.id, minutes>>

\* the timer effect over one unit of the clock: the countdown runs down and
\* at zero the page drops its session
Countdown(c) ==
    IF c.timeRemaining <= 0 THEN c
    ELSE LET newTime == c.timeRemaining - 1
         IN IF newTime <= 0
            THEN [c EXCEPT !.currentSession = Absent, !.timeRemaining = 0]
            ELSE [c EXCEPT !.timeRemaining = newTime]

\* time passes for the server and for the page
ClientTick ==
    /\ Tick
    /\ client' = Countdown(client)

\* generateEmailMutation: POST /api/email/generate and its onSuccess
ClientGenerate ==
    /\ Generate
    /\ client' = [client EXCEPT !.currentSession = last'.body,
                                !.timeRemaining = CountdownStart]

\* extendTime(minutes): the page adds to its countdown and remembers the
\* extension as used; no request is sent
ExtendTime(minutes) ==
    /\ client.currentSession # Absent
    /\ client.timeRemaining > 0
    /\ ExtensionKey(client.currentSession, minutes) \notin client.usedExtensions
    /\ client' = [client EXCEPT
                     !.timeRemaining = @ + ClockUnits(minutes),
                     !.usedExtensions =
                         @ \cup {ExtensionKey(client.currentSession, minutes)}]
    /\ last' = [NoLast EXCEPT !.op = "extendTime", !.id = client.currentSession.id]
    /\ UNCHANGED <<now, storeVars, refresh, relayVars>>

\* the messages query of the page (enabled while it has a session)
ClientGetMessages ==
    /\ client.currentSession # Absent
    /\ GetMessages(client.currentSession.id)
    /\ UNCHANGED client

\* refreshMessagesMutation: POST /api/email/:sessionId/refresh
ClientRefresh ==
    /\ client.currentSession # Absent
    /\ RefreshStart("r1", client.currentSession.id)
    /\ UNCHANGED client

\* The page and the server: the page generates addresses, extends them,
\* polls and refreshes while time passes; the provider lists mails of one
\* sender and subject.
NextClient ==
    \/ ClientTick /\ UNCHANGED serverAux
    \/ ClientGenerate /\ UNCHANGED serverAux
    \/ \E minutes \in ExtensionMinutes : ExtendTime(minutes) /\ UNCHANGED serverAux
    \/ ClientGetMessages /\ UNCHANGED serverAux
    \/ ClientRefresh /\ UNCHANGED serverAux
    \/ \E apiMessages \in ProviderLists({[from |-> "a", subject |-> "bc"]}) :
           RefreshList("r1", apiMessages) /\ UNCHANGED auxVars
    \/ RefreshContent("r1", "textBody") /\ UNCHANGED auxVars
    \/ Sweep /\ UNCHANGED auxVars

SpecClient == Init /\ [][NextClient]_vars

\* ------------------------------------------------------------ properties
Generated(id) == id < nextSessionId
Present(id) == id \in DOMAIN emailSessions
StoredOf(id) == {messages[k] : k \in {j \in 1..Len(messages) : messages[j].emailSessionId = id}}
Range(s) == {s[k] : k \in 1..Len(s)}

\* C1: every stored message's emailSessionId is the id of a session that is
\* in the store (no message outlives its session).
C1_NoOrphanMessage ==
    \A k \in 1..Len(messages) : messages[k].emailSessionId \in DOMAIN emailSessions

\* C2: right after a step that deleted session id (expiry on access or the
\* sweep), listing its messages gives the empty sequence and looking it up
\* gives absent, however many messages it owned.
C2_DeleteCascades ==
    \A id \in last.deleted :
        /\ GetMessagesBySessionId(id) = << >>
        /\ StoredOf(id) = {}
        /\ GetEmailSession(id) = Absent

C2_Witness ==
    /\ last.op = "getSession"
    /\ last.deleted # {}
    /\ last.removed >= 2
    /\ \E id \in SessionIds : Present(id)

\* C3: an access (GET session, GET messages, refresh) that finds the session
\* with expiresAt before now deletes the session and its messages, answers
\* 410 and returns neither the session nor a message; one that finds it with
\* expiresAt not before now answers 200 with the current state (a refresh
\* goes on to the provider and answers 200 with the stored messages).
C3_ExpiryOnAccess ==
    /\ (last.access /\ last.session # Absent /\ last.session.expiresAt < now) =>
          /\ last.status = 410
          /\ last.body = << >>
          /\ last.id \notin DOMAIN emailSessions
          /\ StoredOf(last.id) = {}
    /\ (last.access /\ last.session # Absent /\ ~(last.session.expiresAt < now)) =>
          /\ last.op = "getSession" =>
                last.status = 200 /\ last.body = emailSessions[last.id]
          /\ last.op = "getMessages" =>
                /\ last.status = 200
                /\ Range(last.body) = StoredOf(last.id)
                /\ Len(last.body) = Cardinality(StoredOf(last.id))
          /\ last.op = "refresh" =>
                /\ last.status = 0
                /\ \E p \in Procs : refresh[p].pc = "list" /\ refresh[p].session.id = last.id
    /\ (last.op = "refresh" /\ ~last.access) =>
          /\ last.status = 200
          /\ Range(last.body) = StoredOf(last.id)
          /\ Len(last.body) = Cardinality(StoredOf(last.id))

C3_Witness ==
    /\ last.op = "getMessages"
    /\ last.status = 410
    /\ last.removed >= 1

\* what C4 asks of one step
C4_AccessStep ==
    \A id \in SessionIds :
        /\ (Generated(id) /\ last'.access /\ last'.id = id) =>
              /\ (Present(id) /\ now <= emailSessions[id].expiresAt) =>
                    last'.status = IF last'.op = "refresh" THEN 0 ELSE 200
              /\ (Present(id) /\ now > emailSessions[id].expiresAt) =>
                    last'.status = 410 /\ ~Present(id)'
              /\ ~Present(id) => last'.status = 404
        /\ (Generated(id) /\ ~Present(id)) => ~Present(id)'
        /\ (last'.op = "refresh" /\ ~last'.access) => last'.status = 200

\* C4: for a generated session, an access while now <= expiresAt answers 200
\* (a refresh is let through to the provider and answers 200), the first
\* access after that answers 410 if the session is still stored, and once
\* the session is gone it stays gone and every access answers 404.
C4_Lifecycle == [][C4_AccessStep]_vars

C4_Witness ==
    /\ last.op = "getMessages"
    /\ last.status = 404
    /\ Generated(last.id)
    /\ \E id \in SessionIds : Present(id)

\* C5 as stated: a lookup of a session after its expiresAt has passed gives
\* absent (last.session is what getEmailSession gave the handler).
C5_AbsentAfterExpiry ==
    (last.access /\ last.session # Absent) => ~(last.session.expiresAt < now)

\* what the amended C5 asks of one step
C5_AbsentStep ==
    \A id \in SessionIds :
        /\ id \in last'.deleted => GetEmailSession(id)' = Absent
        /\ (Generated(id) /\ GetEmailSession(id) = Absent) => GetEmailSession(id)' = Absent
        /\ (GetEmailSession(id) # Absent /\ GetEmailSession(id)' = Absent) =>
              /\ id \in last'.deleted
              /\ GetEmailSession(id).expiresAt < now

\* C5 amended: getEmailSession does not look at expiresAt.  A session whose
\* expiresAt has passed is still returned until an access or the sweep
\* deletes it; right after that step the lookup gives absent, and it gives
\* absent in every later state.
C5_AbsentOnceDeleted == [][C5_AbsentStep]_vars

C5_Witness ==
    /\ last.op = "getSession"
    /\ last.status = 404
    /\ Generated(last.id)
    /\ now > TTL

\* what C6 asks of one step
C6_MonotoneStep ==
    \A id \in SessionIds :
        /\ (Generated(id) /\ ~Present(id)) => ~Present(id)'
        /\ (Present(id) /\ Present(id)') =>
              /\ emailSessions[id].id = id
              /\ emailSessions'[id].id = id
              /\ emailSessions'[id].email = emailSessions[id].email
              /\ emailSessions'[id].expiresAt = emailSessions[id].expiresAt
        /\ (~Generated(id) /\ Present(id)') => emailSessions'[id].id = id

\* C6: a session id that has left the store is never in the store again, and
\* while a session is in the store its id, email and expiresAt stay the same.
C6_Monotone == [][C6_MonotoneStep]_vars

C6_Witness ==
    /\ last.op = "generate"
    /\ \E id \in SessionIds : Generated(id) /\ ~Present(id)

\* C7 as stated: an access at now >= expiresAt deletes the session and
\* answers 410.
C7_ExpiredAtExpiresAt ==
    (last.access /\ last.session # Absent /\ now >= last.session.expiresAt) =>
        last.status = 410 /\ ~Present(last.id)

\* C7 amended: an access treats the session as expired as soon as
\* now > expiresAt (deletes it, answers 410); at now = expiresAt the session
\* is still served: it stays stored, GET answers 200 and a refresh goes on.
C7_ExpiredAfterExpiresAt ==
    (last.access /\ last.session # Absent) =>
        /\ now > last.session.expiresAt => last.status = 410 /\ ~Present(last.id)
        /\ now = last.session.expiresAt =>
              /\ Present(last.id)
              /\ last.status = IF last.op = "refresh" THEN 0 ELSE 200

C7_Witness ==
    /\ last.access
    /\ last.op = "getSession"
    /\ last.session # Absent
    /\ now = last.session.expiresAt
    /\ last.status = 200

\* what C8 asks of one step
C8_SweepStep ==
    last'.op = "sweep" =>
        /\ DOMAIN emailSessions' =
               {id \in DOMAIN emailSessions : ~(emailSessions[id].expiresAt < now)}
        /\ \A id \in DOMAIN emailSessions' : emailSessions'[id] = emailSessions[id]
        /\ messages' = SelectSeq(messages, LAMBDA m :
               ~(/\ m.emailSessionId \in DOMAIN emailSessions
                 /\ emailSessions[m.emailSessionId].expiresAt < now))

\* C8: a sweep at time now removes exactly the sessions with expiresAt < now
\* and all messages of those sessions, and leaves every other session and
\* every other message as it was.
C8_SweepExact == [][C8_SweepStep]_vars

C8_Witness ==
    /\ last.op = "sweep"
    /\ last.deleted # {}
    /\ last.removed >= 1
    /\ \E id \in SessionIds :
          Present(id) /\ emailSessions[id].expiresAt = now /\ StoredOf(id) # {}

\* C9: with the sweep timer firing, a session whose expiresAt has passed is
\* eventually out of the store together with the messages stored for it,
\* whether or not a client accesses it.
C9_EventuallySwept ==
    \A id \in SessionIds :
        (Present(id) /\ emailSessions[id].expiresAt < now)
            ~> (~Present(id) /\ StoredOf(id) = {})

C9_Witness ==
    /\ last.op = "sweep"
    /\ Cardinality(last.deleted) = 2
    /\ last.removed >= 2

\* C10: listing the messages of a session gives exactly the stored messages
\* with that emailSessionId, each once, with receivedAt non-increasing.
C10_ListMessages ==
    \A id \in SessionIds :
        LET listed == GetMessagesBySessionId(id)
        IN /\ Range(listed) = StoredOf(id)
           /\ Len(listed) = Cardinality(StoredOf(id))
           /\ \A k \in 1..(Len(listed) - 1) :
                  listed[k].receivedAt >= listed[k + 1].receivedAt

C10_Witness ==
    /\ \E id \in SessionIds :
          /\ Len(GetMessagesBySessionId(id)) = 2
          /\ GetMessagesBySessionId(id)[1].receivedAt > GetMessagesBySessionId(id)[2].receivedAt
    /\ last.op = "getMessages"
    /\ last.status = 200
    /\ Len(last.body) = 2

\* ------------------------------------------------------ C11: a new message
\* the message a createMessage step stored, and the list of its session after
Created == messages'[Len(messages')]
ListedAfter == GetMessagesBySessionIdIn(messages', Created.emailSessionId)

\* what the claim as stated asks of one step: the new message is listed first
C11_NewFirstStep ==
    nextMessageId' # nextMessageId => ListedAfter[1] = Created

\* C11 as stated: after createMessage adds a message to a session, the next
\* listMessages of that session returns the new message first, also when its
\* receivedAt equals that of messages stored before.
C11_NewFirst == [][C11_NewFirstStep]_vars

\* what the code does in one step: the new message goes behind the stored
\* messages of its session that are not older than it
C11_NewBehindTiesStep ==
    nextMessageId' # nextMessageId =>
        LET before == MessagesOf(messages, Created.emailSessionId)
            ties == {k \in 1..Len(before) :
                        before[k].receivedAt >= Created.receivedAt}
        IN /\ Len(ListedAfter) = Len(before) + 1
           /\ ListedAfter[Cardinality(ties) + 1] = Created
           /\ \A k \in 1..Cardinality(ties) :
                 ListedAfter[k].receivedAt = Created.receivedAt
           /\ \A k \in (Cardinality(ties) + 2)..Len(ListedAfter) :
                 ListedAfter[k].receivedAt < Created.receivedAt

\* C11: after createMessage adds a message to a session, the next listMessages
\* of that session returns the new message before every older message and
\* behind the stored messages with the same receivedAt; it is first exactly
\* when no stored message of the session has its receivedAt.
C11_NewBehindTies == [][C11_NewBehindTiesStep]_vars

\* a refresh stored two messages in the same instant: the first one leads
C11_Witness ==
    /\ last.op = "refresh" /\ last.status = 200 /\ last.created = 2
    /\ Len(last.body) = 2
    /\ last.body[1].receivedAt = last.body[2].receivedAt
    /\ last.body[1].id < last.body[2].id

\* ------------------------------------------------- C12..C14: refresh dedup
\* a refresh has just answered 200
Refreshed == last.op = "refresh" /\ ~last.access /\ last.status = 200

\* the (from, subject) pair of a stored or listed message
PairOf(m) == <<m.from, m.subject>>

\* C12: two refreshes of an active session, one after the other, that the
\* provider answered with the same list: the second answers newCount = 0 and
\* stores nothing.
C12_SecondRefreshFindsNothing ==
    (Refreshed /\ obs.previous = [id |-> last.id, apiMessages |-> obs.apiMessages])
        => last.newCount = 0 /\ last.created = 0

\* the list the refresh that just answered was given has pairwise different
\* (from, subject) pairs, none of them the pair of a message it read
AllNew(apiMessages, existingMessages) ==
    /\ \A j, k \in 1..Len(apiMessages) :
          j # k => PairOf(apiMessages[j]) # PairOf(apiMessages[k])
    /\ \A k \in 1..Len(apiMessages) : \A j \in 1..Len(existingMessages) :
          PairOf(apiMessages[k]) # PairOf(existingMessages[j])

\* C13: when the provider's list has n messages with pairwise distinct
\* (from, subject) pairs, none the pair of a stored message of the session,
\* the refresh creates n messages, one per provider message with its from and
\* subject, and answers newCount = n.
C13_CreatesOnePerListed ==
    (Refreshed /\ AllNew(obs.apiMessages, obs.existingMessages)) =>
        LET n == Len(obs.apiMessages)
            own == MessagesOf(messages, last.id)
        IN /\ last.newCount = n
           /\ last.created = n
           /\ Present(last.id) =>
                 /\ Len(own) >= n
                 /\ \A k \in 1..n :
                       PairOf(own[Len(own) - n + k]) = PairOf(obs.apiMessages[k])

\* C14: the refresh never takes a provider message for one it already has
\* when that message differs in sender or in subject from every stored
\* message of the session: different (from, subject) pairs have different
\* dedup keys.
C14_DifferentPairDifferentKey ==
    Refreshed =>
        \A k \in 1..Len(obs.apiMessages) :
            (\A j \in 1..Len(obs.existingMessages) :
                 PairOf(obs.existingMessages[j]) # PairOf(obs.apiMessages[k]))
            => MessageKey(obs.apiMessages[k]) \notin
                   ExistingMessageIds(obs.existingMessages)

\* ----------------------------------------------------- C15..C20: the relay
\* the connection registered for the session of the step just taken
Registered == RegistryGet(activeConnections, last.id)

\* a refresh has just answered, 200 or 500
Answered == last.op = "refresh" /\ ~last.access /\ last.status # 0

\* C15: a refresh that created no message (newCount = 0) pushes no
\* new_messages event to any connection.
C15_NoPushWithoutNewMessages ==
    (Refreshed /\ last.newCount = 0) => last.sent = <<>>

\* C16: when an open connection is registered for session S and a refresh of
\* S creates n >= 1 messages, that connection gets exactly one new_messages
\* event for the refresh, with count n, and no other connection gets one.
C16_PushToSubscriber ==
    (Refreshed /\ last.newCount >= 1 /\ Registered # "none"
              /\ readyState[Registered] = "open")
        => last.sent = <<[to |-> Registered, type |-> "new_messages",
                          count |-> last.newCount]>>

\* session 1 has c1 as subscriber, c2 is open as well, a refresh of session 1
\* created messages
C16_Witness ==
    /\ Refreshed /\ last.id = 1 /\ last.newCount = 2
    /\ Registered = "c1"
    /\ readyState["c1"] = "open" /\ readyState["c2"] = "open"
    /\ RegistryGet(activeConnections, 2) = "c2"
    /\ last.sent # <<>>

\* C17: after a subscribed connection has closed, no refresh of any session
\* sends on it, and a refresh of a session whose subscriber has closed still
\* answers 200 with the full list and has stored its new messages.
C17_NoSendOnClosed ==
    Answered =>
        /\ \A k \in 1..Len(last.sent) : readyState[last.sent[k].to] # "closed"
        /\ (Registered = "none" \/ readyState[Registered] = "closed") =>
              /\ last.status = 200
              /\ last.sent = <<>>
              /\ last.newCount = last.created
              /\ last.body = GetMessagesBySessionId(last.id)

\* a refresh stored a message for a session whose entry in the registry still
\* holds a closed connection
C17_Witness ==
    /\ Answered /\ last.created >= 1
    /\ Registered # "none" /\ readyState[Registered] = "closed"

\* C18: once a connection has closed, the registry has no entry holding it,
\* whatever session ids (one or several) it had subscribed under.
C18_ClosedConnectionUnregistered ==
    \A c \in Conns :
        readyState[c] = "closed" =>
            \A k \in 1..Len(activeConnections) : activeConnections[k][2] # c

\* C19: the registry holds at most one connection per session; a subscribe
\* for a session that has a subscriber replaces it, and the pushes of a
\* refresh go to the registered connection only.
C19_LastSubscriberWins ==
    /\ \A j, k \in 1..Len(activeConnections) :
          activeConnections[j][1] = activeConnections[k][1] => j = k
    /\ last.op = "subscribe" => Registered = last.ws
    /\ Refreshed => \A k \in 1..Len(last.sent) : last.sent[k].to = Registered

\* c2 has just subscribed to a session that the open connection c1 was
\* registered for
C19_Witness ==
    /\ last.op = "subscribe" /\ last.ws = "c2" /\ last.replaced = "c1"
    /\ readyState["c1"] = "open"
    /\ Registered = "c2"

\* C20: a send that raises does not change the outcome of the refresh: it
\* answers 200 with the full message list and the count of the messages it
\* created, never 500 after it has stored them.
C20_PushFailureIsolated ==
    Answered =>
        /\ last.status = 200
        /\ last.newCount = last.created
        /\ last.body = GetMessagesBySessionId(last.id)

\* ------------------------------------------- C21, C22, C27: generation
\* what C21 asks of the step that ends a generate request
C21_CompletesStep ==
    (generating.pc = "racing" /\ generating'.pc = "idle") =>
        /\ last'.op = "generate" /\ last'.status = 200
        /\ last'.id \notin DOMAIN emailSessions
        /\ last'.id \in DOMAIN emailSessions'
        /\ emailSessions'[last'.id] = last'.body

\* C21: every generate request completes, with 200 and a newly stored
\* session, whatever the provider does: it fails, answers without JSON or
\* with nothing, answers after the timeout or never; then the timer supplies
\* the address.
C21_GenerateCompletes ==
    /\ [][C21_CompletesStep]_vars
    /\ (generating.pc = "racing") ~> (generating.pc = "idle")

\* the timer won the race and the provider has still not answered
C21_Witness ==
    /\ last.op = "generate" /\ last.status = 200 /\ Present(last.id)
    /\ generating.pc = "idle"
    /\ generating.timer = "fired" /\ generating.emailPromise = "pending"

\* C22 as stated: every session has expiresAt = createdAt + 10 minutes.
C22_TenMinutesAfterCreatedAt ==
    \A id \in DOMAIN emailSessions :
        emailSessions[id].expiresAt = emailSessions[id].createdAt + TTL

\* what the code does in the step that stores a session: expiresAt is ten
\* minutes after the clock value the handler read, createdAt is a later read
C22_TenMinutesStep ==
    (last'.op = "generate" /\ last'.status = 200) =>
        /\ last'.body.expiresAt = now + TTL
        /\ now <= last'.body.createdAt /\ last'.body.createdAt <= now'

\* C22: every session created by generate has expiresAt exactly 10 minutes
\* after the clock value the handler read once the race had settled,
\* whichever branch won; createdAt is read from the clock again when the
\* session is stored, so it is that instant or later and expiresAt is at
\* most createdAt + 10 minutes.
C22_TenMinutesAfterRead == [][C22_TenMinutesStep]_vars

\* a session stored from the timeout branch after the clock had moved on
C22_Witness ==
    /\ last.op = "generate" /\ last.status = 200
    /\ generating.timer = "fired" /\ generating.emailPromise = "pending"
    /\ last.body.createdAt + TTL > last.body.expiresAt

\* C27: every address from a fallback path has a local part of exactly 8
\* characters and one of the candidate domains.
C27_FallbackAddressValid ==
    \A id \in DOMAIN emailSessions :
        LET email == emailSessions[id].email
        IN email # ProviderEmail =>
              /\ Len(email.local) = 8
              /\ email.domain \in Range(FallbackDomains)

\* --------------------------------------- C23, C24: the provider fails
\* what C23 asks of the step in which the list request is answered
C23_ListFailureStep ==
    (refresh["r1"].pc = "list" /\ refresh'["r1"].pc # "list"
                               /\ obs'.outcome \in ListFailures) =>
        /\ last'.op = "refresh" /\ last'.status = 200 /\ last'.newCount = 0
        /\ messages' = messages
        /\ last'.body = GetMessagesBySessionId(refresh["r1"].session.id)

\* C23: when the provider's list request fails (network error, no JSON, no
\* array), the refresh answers 200 with newCount = 0 and the stored messages
\* of the session as they were, never 500.
C23_ListFailureMasked == [][C23_ListFailureStep]_vars

\* a failed list request answered with the messages stored before
C23_Witness ==
    /\ Refreshed /\ obs.outcome \in ListFailures
    /\ Len(last.body) >= 1

\* what C24 asks of the step in which a content request is answered
C24_NoContentStep ==
    (refresh["r1"].pc = "content" /\ nextMessageId' # nextMessageId
                                  /\ obs'.outcome \in {"empty", "absent"}) =>
        LET r == refresh["r1"]
            count == r.newMessagesCount + 1
            next == NextNewIndex(r.apiMessages, r.existingMessageIds, r.i + 1)
        IN /\ Created.textBody = "No content"
           /\ Created.emailSessionId = r.session.id
           /\ PairOf(Created) = PairOf(r.apiMessages[r.i])
           /\ IF next # 0
              THEN /\ refresh'["r1"].pc = "content"
                   /\ refresh'["r1"].i = next
                   /\ refresh'["r1"].newMessagesCount = count
              ELSE /\ last'.op = "refresh" /\ last'.status = 200
                   /\ last'.newCount = count

\* C24: when the content fetch of a new provider message returns absent or
\* a detail without textBody and body, the refresh still creates the message
\* with textBody "No content", counts it, goes on with the remaining provider
\* messages and answers 200.
C24_NoContentPlaceholder == [][C24_NoContentStep]_vars

\* a refresh stored a message without content, went on and stored the next
C24_Witness ==
    /\ Refreshed /\ last.newCount = 2 /\ Len(messages) = 2
    /\ messages[1].textBody = "No content"
    /\ messages[2].textBody = "text"

\* ------------------------------------------------- C25: unknown session id
Endpoints == {"getSession", "getMessages", "refresh"}

\* what C25 asks of the step in which a request arrives
C25_UnknownStep ==
    (last'.access /\ last'.op \in Endpoints
                  /\ last'.id \notin DOMAIN emailSessions) =>
        /\ last'.status = 404
        /\ UNCHANGED <<emailSessions, messages, activeConnections, readyState>>
        /\ UNCHANGED refresh

\* C25: a request to one of the three per-session endpoints whose session id
\* is not in the store answers 404, leaves the session table, the message
\* table and the registry as they are and sends nothing to the provider.
C25_UnknownIs404 == [][C25_UnknownStep]_vars

\* a refresh of an unknown id whose id has a subscriber, with messages stored
C25_Witness ==
    /\ last.op = "refresh" /\ last.status = 404
    /\ Registered # "none"
    /\ Len(messages) >= 1
    /\ refresh["r1"].pc = "idle"

\* ------------------------------------------------ C26: deleteSession twice
\* what C26 asks of a deleteSession step
C26_DeleteStep ==
    last'.op = "delete" =>
        /\ last'.id \notin DOMAIN emailSessions =>
              UNCHANGED <<emailSessions, messages>>
        /\ SessionsWithout(emailSessions', last'.id) = emailSessions'
        /\ DeleteMessagesBySessionId(messages', last'.id) = messages'

\* C26: deleteSession(id) on an id that is not in the store changes nothing,
\* and deleteSession(id) applied twice leaves the store as applying it once.
C26_DeleteIdempotent == [][C26_DeleteStep]_vars

\* -------------------------------------------- C28, C29: stored only once
\* C28: after a refresh has answered, no two stored messages of a session
\* have the same dedup key: two entries of one list with the same sender and
\* subject give one message, counted once.
C28_OneMessagePerKey ==
    Refreshed =>
        \A j, k \in 1..Len(messages) :
            (j # k /\ messages[j].emailSessionId = messages[k].emailSessionId)
            => MessageKey(messages[j]) # MessageKey(messages[k])

\* C29: with two refresh handlers running at the same time for one session
\* against one unchanged provider list, each provider message is stored at
\* most once, and the newCount values answered add up to the number of
\* messages added to the store.
C29_ConcurrentRefreshes ==
    /\ \A j, k \in 1..Len(messages) :
          (j # k /\ messages[j].emailSessionId = messages[k].emailSessionId)
          => PairOf(messages[j]) # PairOf(messages[k])
    /\ (\A p \in Procs : refresh[p].pc = "idle") => obs.counted = Len(messages)

\* ------------------------------------------- C30: messages are immutable
\* what C30 asks of one step
C30_ImmutableStep ==
    /\ \A m \in Range(messages) :
          /\ (\E n \in Range(messages') : n.id = m.id) => m \in Range(messages')
          /\ m \notin Range(messages') =>
                /\ m.emailSessionId \in DOMAIN emailSessions
                /\ m.emailSessionId \notin DOMAIN emailSessions'
    /\ \A n \in Range(messages') \ Range(messages) :
          /\ refresh["r1"].pc = "content"
          /\ n.id = nextMessageId /\ nextMessageId' = nextMessageId + 1
          /\ n.emailSessionId = refresh["r1"].session.id

RefreshedNow == last'.op = "refresh" /\ ~last'.access /\ last'.status = 200

\* what C31 asks of one step of the refresh of process p
C31_CountsStep(p) ==
    /\ refresh[p].pc = "list" /\ refresh'[p] # refresh[p] =>
          /\ messages' = messages
          /\ refresh'[p].pc = "content" => refresh'[p].newMessagesCount = 0
          /\ refresh'[p].pc = "idle" => RefreshedNow /\ last'.newCount = 0
    /\ refresh[p].pc = "content" /\ refresh'[p] # refresh[p] =>
          /\ Len(messages') = Len(messages) + 1
          /\ messages'[Len(messages')].emailSessionId = refresh[p].session.id
          /\ refresh'[p].pc = "content" =>
                refresh'[p].newMessagesCount = refresh[p].newMessagesCount + 1
          /\ refresh'[p].pc = "idle" =>
                /\ RefreshedNow
                /\ last'.newCount = refresh[p].newMessagesCount + 1
    /\ RefreshedNow =>
          /\ last'.body = GetMessagesBySessionIdIn(messages', last'.id)
          /\ \A k \in 1..Len(last'.sent) : last'.sent[k].count = last'.newCount

\* C31: a refresh that answers 200 returns as messages exactly the session's
\* stored messages at the moment of the response, and as newCount the number
\* of messages it created itself (none by the list step, one by every content
\* step), which is also the count of every push it sends.
C31_ReturnsStoredAndCount == [][\A p \in Procs : C31_CountsStep(p)]_vars

\* a second refresh of session 1 created one message next to a stored one and
\* pushed to the subscriber
C31_Witness ==
    /\ Refreshed /\ last.id = 1 /\ last.newCount = 1
    /\ Len(last.body) = 2 /\ Len(last.sent) = 1
    /\ last.sent[1].count = 1

\* ------------------------------------------- C32: extending the address
\* the page has extended the session it shows
Extended ==
    /\ client.currentSession # Absent
    /\ \E minutes \in ExtensionMinutes :
          ExtensionKey(client.currentSession, minutes) \in client.usedExtensions

\* the server has just taken a GET messages or a refresh request of the page
\* for the session it shows
ServedPage ==
    /\ client.currentSession # Absent
    /\ last.access /\ last.op \in {"getMessages", "refresh"}
    /\ last.id = client.currentSession.id

\* C32: after an extension in the client the server keeps serving the
\* session (no 410, no 404) on GET messages and refresh for as long as the
\* client's countdown is above zero.
C32_ExtensionPostponesExpiry ==
    (Extended /\ ServedPage /\ client.timeRemaining > 0)
        => last.status \notin {404, 410}

\* without an extension the countdown reaches zero before the server expires
\* the session
CountdownWithinLifetime ==
    (~Extended /\ ServedPage /\ client.timeRemaining > 0)
        => last.status \notin {404, 410}

\* ------------------------------- C33: a refused refresh has no side effect
\* what C33 asks of the step that takes a refresh request for id
C33_RefusedStep(id) ==
    (last'.op = "refresh" /\ last'.access /\ last'.id = id /\ ~Active(id)) =>
        /\ last'.status = IF id \in DOMAIN emailSessions THEN 410 ELSE 404
        /\ refresh' = refresh
        /\ nextMessageId' = nextMessageId
        /\ last'.sent = << >>
        /\ UNCHANGED <<now, nextSessionId, activeConnections, readyState>>
        /\ emailSessions' = [i \in DOMAIN emailSessions \ {id} |-> emailSessions[i]]
        /\ messages' = IF id \in DOMAIN emailSessions
                       THEN SelectSeq(messages, LAMBDA m : m.emailSessionId # id)
                       ELSE messages

\* C33: a refresh of a session that is unknown or already expired when the
\* request arrives is answered 404 or 410 and does nothing but the expiry
\* deletion: no request to the provider is started, no message is created,
\* nothing is pushed and the registry is left alone.
C33_RefusedRefreshInert == [][\A id \in SessionIds : C33_RefusedStep(id)]_vars

\* a refresh of an expired session with a stored message and an open
\* subscriber was answered 410
C33_Witness ==
    /\ last.op = "refresh" /\ last.access /\ last.status = 410
    /\ last.removed >= 1
    /\ Registered = "c1" /\ readyState["c1"] = "open"

\* ---------------------------------------------- C34: the GETs are read-only
\* what C34 asks of the step that answers a GET for id
C34_ReadStep(id) ==
    (last'.op \in {"getSession", "getMessages"} /\ last'.id = id /\ Active(id)) =>
        /\ last'.status = 200
        /\ UNCHANGED <<emailSessions, messages, activeConnections, readyState>>
        /\ UNCHANGED <<nextSessionId, nextMessageId, refresh>>

\* C34: GET session and GET messages on a session that exists and is not
\* expired answer 200 and leave the session table, the message table and the
\* registry as they were.
C34_GetsAreReadOnly == [][\A id \in SessionIds : C34_ReadStep(id)]_vars

\* GET messages answered 200 with a stored message, after time has passed,
\* while a connection is registered for the session
C34_Witness ==
    /\ last.op = "getMessages" /\ last.status = 200
    /\ Len(last.body) >= 1 /\ now >= 1
    /\ Registered = "c1"
    /\ Cardinality(DOMAIN emailSessions) = 2

\* ------------------------------------ C35: the close of a superseded socket
\* connection a was subscribed to session s and another connection holds the
\* entry of s now
Superseded(a, s) ==
    /\ <<a, s>> \in obs.superseded
    /\ RegistryGet(activeConnections, s) \notin {"none", a}

\* connection a closes in this step
Closes(a) == last'.op = "close" /\ last'.ws = a

\* a refresh of a session with a superseded, closed subscriber creates
\* messages: the open connection registered for the session gets the push
SupersederPushed ==
    \A a \in Conns :
        LET b == RegistryGet(activeConnections', last'.id)
        IN (/\ RefreshedNow /\ last'.newCount >= 1
            /\ <<a, last'.id>> \in obs'.superseded
            /\ readyState'[a] = "closed"
            /\ b \notin {"none", a} /\ readyState'[b] = "open")
           => last'.sent = <<[to |-> b, type |-> "new_messages",
                              count |-> last'.newCount]>>

\* C35: when connection A subscribed to session S has been superseded by
\* connection B, the later close of A removes nothing from the registry: B
\* stays registered for S and gets the push of the next refresh of S that
\* creates messages.
C35_SupersededCloseRemovesNothing ==
    [][/\ \A a \in Conns, s \in SessionIds :
             (Superseded(a, s) /\ Closes(a)) =>
                 activeConnections' = activeConnections
       /\ SupersederPushed]_vars

\* C35 as amended: the close of A removes no entry of another connection (at
\* most one entry A still holds for another session): B stays registered for
\* S and gets the push of the next refresh of S that creates messages.
C35_SupersededCloseKeepsOthers ==
    [][/\ \A a \in Conns, s \in SessionIds :
             (Superseded(a, s) /\ Closes(a)) =>
                 /\ RegistryGet(activeConnections', s)
                        = RegistryGet(activeConnections, s)
                 /\ SelectSeq(activeConnections', LAMBDA e : e[2] # a)
                        = SelectSeq(activeConnections, LAMBDA e : e[2] # a)
                 /\ Len(activeConnections') >= Len(activeConnections) - 1
                 /\ (\A k \in 1..Len(activeConnections) :
                         activeConnections[k][2] # a)
                        => activeConnections' = activeConnections
       /\ SupersederPushed]_vars

\* c1 was superseded by c2 for session 1 and has closed; a refresh of
\* session 1 created a message and pushed to c2
C35_Witness ==
    /\ <<"c1", 1>> \in obs.superseded /\ readyState["c1"] = "closed"
    /\ Refreshed /\ last.id = 1 /\ last.newCount >= 1
    /\ Registered = "c2"
    /\ last.sent = <<[to |-> "c2", type |-> "new_messages",
                      count |-> last.newCount]>>
====
